---- MODULE Spec2Model ----
(***************************************************************************)
(* Atlas Psi framework: the C-Phase runtime (src/src/c_phase_runtime.py),  *)
(* the tier selector (src/src/acp_runtime.py), the monitor                 *)
(* (src/src/monitor.py) and the gateway client                             *)
(* (src/src/safety_gateway_client.py).                                     *)
(*                                                                         *)
(* Psi values and gradients are fixed-point numbers in hundredths: the     *)
(* integer 5 stands for the float 0.05, 10 for 0.10, 100 for 1.0.  The     *)
(* runtime only compares psi against its two thresholds, so the order of   *)
(* the values is all that matters.                                         *)
(***************************************************************************)
EXTENDS Integers, Sequences, FiniteSets, TLC

VARIABLES
    crisis_turns,       \* CPhaseRuntime.crisis_turns
    recovery_turns,     \* CPhaseRuntime.recovery_turns
    active,             \* CPhaseRuntime.active
    turn_counter,       \* CPhaseRuntime._turn_counter (the beat cursor)
    result,             \* the dict returned by the last step call (<<>> before any)
    history,            \* the last KeepLast step calls, oldest first
    episode_steps,      \* steps of the current episode on which the machine stayed active
    safety_streak,      \* consecutive step calls so far that reported tier SAFETY
    alerts_since_exit,  \* alerts returned since the last exit (or since construction)
    ever_active,        \* the machine has been active on this or an earlier step
    demo_i,             \* loop position of the __main__ demo; -1 when the run is not the demo
    cfg,                \* AdaptiveClarityProtocol.cfg
    acp_args,           \* the arguments of the last decide call, as passed and as left (<<>> before any)
    decision,           \* the ACPDecision returned by the last decide call (<<>> before any)
    memo,               \* the first decide call made with probe arguments, and whether a
                        \* later call returned another tier (<<>> before any)
    mon,                \* the PsiMonitor object
    mon_prev,           \* the PsiMonitor object before the last update call
    mon_calls,          \* number of update calls made
    mon_ret,            \* the psi returned by the last update call (<<>> before any)
    sessions,           \* one CPhaseRuntime object per session
    utcnow,             \* the reading datetime.utcnow() returns
    emitted,            \* every alert the sessions returned, in order
    gateway,            \* the SafetyGatewayClient object
    log_file,           \* the lines of the file gateway.local_log names
    uuid_drawn,         \* how many uuid4 values have been drawn
    receipt,            \* what the last send_alert call returned (<<>> before any)
    monitors,           \* one PsiMonitor object per session
    calls,              \* per session, the arguments of its step and update calls
    outs,               \* per session, what its last step and update returned
    cphase,             \* the CPhaseRuntime object of the per-turn flow
    previous_psi,       \* the flow's psi of the turn before (<<>> before any)
    flow_in,            \* the flow's last turn: its inputs and whether step ran
    flow_turn           \* the parity of the number of turns of the flow

cphase_vars == <<crisis_turns, recovery_turns, active, turn_counter, result, history,
                 episode_steps, safety_streak, alerts_since_exit, ever_active,
                 demo_i>>

acp_vars == <<cfg, acp_args, decision, memo>>

mon_vars == <<mon, mon_prev, mon_calls, mon_ret>>

sess_vars == <<sessions, utcnow, emitted>>

gw_vars == <<gateway, log_file, uuid_drawn, receipt>>

iso_vars == <<monitors, calls, outs>>

flow_vars == <<cphase, previous_psi, flow_in, flow_turn>>

vars == <<cphase_vars, acp_vars, mon_vars, sess_vars, gw_vars, iso_vars, flow_vars>>

----------------------------------------------------------------------------
\* Bounds of the model

MaxCrisisTurns == 4     \* crisis_turns never counts beyond this
MaxBeats == 6           \* _turn_counter never counts beyond this
KeepLast == 3           \* number of past step calls kept in history
MaxUpdates == 3         \* PsiMonitor.update is called at most this often
MaxClock == 1           \* the clock of the sessions advances at most this far
MaxAlerts == 2          \* the sessions stop after this many alerts
MaxLog == 2             \* send_alert is called at most this often
MaxCalls == 4           \* the isolated sessions make at most this many calls in all

\* psi values fed to step, in hundredths, on both sides of 0.05 and 0.10 and
\* outside [0,1] (the code accepts any float)
PsiValues == {-1, 4, 5, 9, 10, 101}
Gradients == {-60, 0}

----------------------------------------------------------------------------
\* Class constants

CRISIS_THRESHOLD == 5
EXIT_THRESHOLD == 10
MIN_SUSTAINED == 2
RESTORE_TURNS == 3

None == "None"

beats == << "GROUND", "VALIDATE", "TINY CONTROL", "BRIDGE TO CARE" >>

STABILITY_RESTORED == "Stability restored. Resuming normal reasoning."

ALERT_REASON == "Psi below threshold or hard flag"

\* PsiState(value, gradient)
PsiState(value, gradient) == [value |-> value, gradient |-> gradient]

\* CrisisAlert.to_dict()
CrisisAlert(alert_id, timestamp, psi, dpsi_dt, reason) ==
    [alert_id |-> alert_id, timestamp |-> timestamp,
     psi |-> psi, dpsi_dt |-> dpsi_dt, reason |-> reason,
     autonomous_action |-> FALSE, human_required |-> TRUE,
     consent_verified |-> FALSE, reviewed_by_human |-> FALSE]

\* f"ALERT-{datetime.utcnow().timestamp()}"
AlertId(clock) == << "ALERT", clock >>

\* _make_alert(psi, reason); both clock reads return the current reading
make_alert(psi, reason) ==
    CrisisAlert(AlertId(utcnow), utcnow, psi.value, psi.gradient, reason)

\* CPhaseRuntime.__init__()
CPhaseRuntime == [crisis_turns |-> 0, recovery_turns |-> 0,
                  active |-> FALSE, turn_counter |-> 0]

\* The mutable fields of a CPhaseRuntime as one value
Self == [crisis_turns |-> crisis_turns, recovery_turns |-> recovery_turns,
         active |-> active, turn_counter |-> turn_counter]

\* detect entering on the first crisis tick (the count compared with > 0)
detect_single_tick(self, psi, hard_flag) ==
    IF hard_flag \/ psi.value < CRISIS_THRESHOLD
    THEN LET s1 == [self EXCEPT !.crisis_turns = @ + 1] IN
         IF s1.crisis_turns > 0 /\ ~s1.active
         THEN [self |-> [s1 EXCEPT !.active = TRUE],
               ret |-> << make_alert(psi, ALERT_REASON) >>]
         ELSE [self |-> s1, ret |-> << >>]
    ELSE [self |-> [self EXCEPT !.crisis_turns = 0], ret |-> << >>]

\* detect without the "not self.active" test: it alerts on every sustained tick
detect_level_triggered(self, psi, hard_flag) ==
    IF hard_flag \/ psi.value < CRISIS_THRESHOLD
    THEN LET s1 == [self EXCEPT !.crisis_turns = @ + 1] IN
         IF s1.crisis_turns >= MIN_SUSTAINED
         THEN [self |-> [s1 EXCEPT !.active = TRUE],
               ret |-> << make_alert(psi, ALERT_REASON) >>]
         ELSE [self |-> s1, ret |-> << >>]
    ELSE [self |-> [self EXCEPT !.crisis_turns = 0], ret |-> << >>]

\* detect comparing psi with the exit threshold instead of the crisis threshold
detect_wrong_threshold(self, psi, hard_flag) ==
    IF hard_flag \/ psi.value < EXIT_THRESHOLD
    THEN LET s1 == [self EXCEPT !.crisis_turns = @ + 1] IN
         IF s1.crisis_turns >= MIN_SUSTAINED /\ ~s1.active
         THEN [self |-> [s1 EXCEPT !.active = TRUE],
               ret |-> << make_alert(psi, ALERT_REASON) >>]
         ELSE [self |-> s1, ret |-> << >>]
    ELSE [self |-> [self EXCEPT !.crisis_turns = 0], ret |-> << >>]

\* detect(psi, hard_flag): the fields afterwards and the returned alert
detect(self, psi, hard_flag) ==
    IF hard_flag \/ psi.value < CRISIS_THRESHOLD
    THEN LET s1 == [self EXCEPT !.crisis_turns = @ + 1] IN
         IF s1.crisis_turns >= MIN_SUSTAINED /\ ~s1.active
         THEN [self |-> [s1 EXCEPT !.active = TRUE],
               ret |-> << make_alert(psi, ALERT_REASON) >>]
         ELSE [self |-> s1, ret |-> << >>]
    ELSE [self |-> [self EXCEPT !.crisis_turns = 0], ret |-> << >>]

\* deescalate reading the beat after advancing the cursor
deescalate_advance_first(self) ==
    [self |-> [self EXCEPT !.turn_counter = @ + 1],
     ret |-> beats[((self.turn_counter + 1) % 4) + 1]]

\* deescalate(): the fields afterwards and the returned beat
deescalate(self) ==
    [self |-> [self EXCEPT !.turn_counter = @ + 1],
     ret |-> beats[(self.turn_counter % 4) + 1]]

\* check_exit that keeps the recovery count when psi falls below the exit threshold
check_exit_no_reset(self, psi, hard_flag) ==
    IF hard_flag
    THEN [self |-> [self EXCEPT !.recovery_turns = 0], ret |-> FALSE]
    ELSE IF psi.value >= EXIT_THRESHOLD
         THEN LET s1 == [self EXCEPT !.recovery_turns = @ + 1] IN
              IF s1.recovery_turns >= RESTORE_TURNS
              THEN [self |-> [s1 EXCEPT !.active = FALSE, !.recovery_turns = 0,
                                        !.crisis_turns = 0, !.turn_counter = 0],
                    ret |-> TRUE]
              ELSE [self |-> s1, ret |-> FALSE]
         ELSE [self |-> self, ret |-> FALSE]

\* check_exit comparing the recovery count with > instead of >=
check_exit_one_late(self, psi, hard_flag) ==
    IF hard_flag
    THEN [self |-> [self EXCEPT !.recovery_turns = 0], ret |-> FALSE]
    ELSE IF psi.value >= EXIT_THRESHOLD
         THEN LET s1 == [self EXCEPT !.recovery_turns = @ + 1] IN
              IF s1.recovery_turns > RESTORE_TURNS
              THEN [self |-> [s1 EXCEPT !.active = FALSE, !.recovery_turns = 0,
                                        !.crisis_turns = 0, !.turn_counter = 0],
                    ret |-> TRUE]
              ELSE [self |-> s1, ret |-> FALSE]
         ELSE [self |-> [self EXCEPT !.recovery_turns = 0], ret |-> FALSE]

\* check_exit without the hard-flag test
check_exit_ignores_flag(self, psi, hard_flag) ==
    IF psi.value >= EXIT_THRESHOLD
    THEN LET s1 == [self EXCEPT !.recovery_turns = @ + 1] IN
         IF s1.recovery_turns >= RESTORE_TURNS
         THEN [self |-> [s1 EXCEPT !.active = FALSE, !.recovery_turns = 0,
                                   !.crisis_turns = 0, !.turn_counter = 0],
               ret |-> TRUE]
         ELSE [self |-> s1, ret |-> FALSE]
    ELSE [self |-> [self EXCEPT !.recovery_turns = 0], ret |-> FALSE]

\* check_exit that forgets to reset the beat cursor on exit
check_exit_keeps_cursor(self, psi, hard_flag) ==
    IF hard_flag
    THEN [self |-> [self EXCEPT !.recovery_turns = 0], ret |-> FALSE]
    ELSE IF psi.value >= EXIT_THRESHOLD
         THEN LET s1 == [self EXCEPT !.recovery_turns = @ + 1] IN
              IF s1.recovery_turns >= RESTORE_TURNS
              THEN [self |-> [s1 EXCEPT !.active = FALSE, !.recovery_turns = 0,
                                        !.crisis_turns = 0],
                    ret |-> TRUE]
              ELSE [self |-> s1, ret |-> FALSE]
         ELSE [self |-> [self EXCEPT !.recovery_turns = 0], ret |-> FALSE]

\* check_exit that leaves recovery_turns at its count when the machine exits
check_exit_keeps_recovery(self, psi, hard_flag) ==
    IF hard_flag
    THEN [self |-> [self EXCEPT !.recovery_turns = 0], ret |-> FALSE]
    ELSE IF psi.value >= EXIT_THRESHOLD
         THEN LET s1 == [self EXCEPT !.recovery_turns = @ + 1] IN
              IF s1.recovery_turns >= RESTORE_TURNS
              THEN [self |-> [s1 EXCEPT !.active = FALSE,
                                        !.crisis_turns = 0, !.turn_counter = 0],
                    ret |-> TRUE]
              ELSE [self |-> s1, ret |-> FALSE]
         ELSE [self |-> [self EXCEPT !.recovery_turns = 0], ret |-> FALSE]

\* check_exit that restores one recovery turn early
check_exit_one_early(self, psi, hard_flag) ==
    IF hard_flag
    THEN [self |-> [self EXCEPT !.recovery_turns = 0], ret |-> FALSE]
    ELSE IF psi.value >= EXIT_THRESHOLD
         THEN LET s1 == [self EXCEPT !.recovery_turns = @ + 1] IN
              IF s1.recovery_turns >= RESTORE_TURNS - 1
              THEN [self |-> [s1 EXCEPT !.active = FALSE, !.recovery_turns = 0,
                                        !.crisis_turns = 0, !.turn_counter = 0],
                    ret |-> TRUE]
              ELSE [self |-> s1, ret |-> FALSE]
         ELSE [self |-> [self EXCEPT !.recovery_turns = 0], ret |-> FALSE]

\* check_exit(psi, hard_flag): the fields afterwards and the returned bool
check_exit(self, psi, hard_flag) ==
    IF hard_flag
    THEN [self |-> [self EXCEPT !.recovery_turns = 0], ret |-> FALSE]
    ELSE IF psi.value >= EXIT_THRESHOLD
         THEN LET s1 == [self EXCEPT !.recovery_turns = @ + 1] IN
              IF s1.recovery_turns >= RESTORE_TURNS
              THEN [self |-> [s1 EXCEPT !.active = FALSE, !.recovery_turns = 0,
                                        !.crisis_turns = 0, !.turn_counter = 0],
                    ret |-> TRUE]
              ELSE [self |-> s1, ret |-> FALSE]
         ELSE [self |-> [self EXCEPT !.recovery_turns = 0], ret |-> FALSE]

\* step that leaves the tier computed before check_exit on the exit turn
step_stale_tier(self, psi, hard_flag) ==
    LET d == detect(self, psi, hard_flag)
        tier0 == IF d.self.active THEN "SAFETY" ELSE "NORMAL"
    IN  IF d.ret /= << >>
        THEN LET b == deescalate(d.self) IN
             [self |-> b.self,
              ret |-> [tier |-> tier0, alert |-> d.ret[1], message |-> b.ret]]
        ELSE IF d.self.active
        THEN LET b == deescalate(d.self)
                 x == check_exit(b.self, psi, hard_flag)
             IN  IF x.ret
                 THEN [self |-> x.self,
                       ret |-> [tier |-> tier0, message |-> STABILITY_RESTORED]]
                 ELSE [self |-> x.self,
                       ret |-> [tier |-> tier0, message |-> b.ret]]
        ELSE [self |-> d.self, ret |-> [tier |-> tier0, message |-> None]]

\* step that sends no beat on the entry turn
step_silent_entry(self, psi, hard_flag) ==
    LET d == detect(self, psi, hard_flag)
        tier0 == IF d.self.active THEN "SAFETY" ELSE "NORMAL"
    IN  IF d.ret /= << >>
        THEN [self |-> d.self,
              ret |-> [tier |-> tier0, alert |-> d.ret[1], message |-> None]]
        ELSE IF d.self.active
        THEN LET b == deescalate(d.self)
                 x == check_exit(b.self, psi, hard_flag)
             IN  IF x.ret
                 THEN [self |-> x.self,
                       ret |-> [tier |-> "COHERENCE", message |-> STABILITY_RESTORED]]
                 ELSE [self |-> x.self,
                       ret |-> [tier |-> tier0, message |-> b.ret]]
        ELSE [self |-> d.self, ret |-> [tier |-> tier0, message |-> None]]

\* step(psi, hard_flag): the fields afterwards and the returned dict.  The
\* dict has the key "alert" only on the branch that got an alert from detect.
step(self, psi, hard_flag) ==
    LET d == detect(self, psi, hard_flag)
        tier0 == IF d.self.active THEN "SAFETY" ELSE "NORMAL"
    IN  IF d.ret /= << >>
        THEN LET b == deescalate(d.self) IN
             [self |-> b.self,
              ret |-> [tier |-> tier0, alert |-> d.ret[1], message |-> b.ret]]
        ELSE IF d.self.active
        THEN LET b == deescalate(d.self)
                 x == check_exit(b.self, psi, hard_flag)
             IN  IF x.ret
                 THEN [self |-> x.self,
                       ret |-> [tier |-> "COHERENCE", message |-> STABILITY_RESTORED]]
                 ELSE [self |-> x.self,
                       ret |-> [tier |-> tier0, message |-> b.ret]]
        ELSE [self |-> d.self, ret |-> [tier |-> tier0, message |-> None]]

\* The timeline of the __main__ demo block and the gradient it passes
timeline == << 32, 18, 7, 6, 8, 12, 16 >>

DemoPsi(val) == PsiState(val, val - 15)

----------------------------------------------------------------------------
\* The tier selector (acp_runtime.py).  psi, dpsi_dt, the components and the
\* thresholds are in hundredths.  A dict is a function on its keys.

\* ACPConfig with its default thresholds
ACPConfig == [crisis_threshold |-> 5, caution_band |-> 15,
              rapid_decline |-> -50, min_c_phase_hold |-> 10]

\* AdaptiveClarityProtocol.__init__(config=None)
AdaptiveClarityProtocol == [cfg |-> ACPConfig]

\* AdaptiveClarityProtocol.__init__(config): self.cfg = config or ACPConfig();
\* config None is << >>
AdaptiveClarityProtocolOf(config) ==
    [cfg |-> IF config = << >> THEN ACPConfig ELSE config]

\* dict.get(key, default)
Get(dict, key, default) == IF key \in DOMAIN dict THEN dict[key] ELSE default

\* any(flags.values())
AnyFlag(flags) == \E k \in DOMAIN flags : flags[k]

\* [k for k, v in flags.items() if v]
Tripped(flags) == { k \in DOMAIN flags : flags[k] }

\* _needs_safety without the test of psi against crisis_threshold
needs_safety_decline_only(self, psi, dpsi_dt, comps, flags) ==
    IF Get(flags, "explicit_self_harm", FALSE) THEN TRUE
    ELSE LET rapid == dpsi_dt <= self.cfg.rapid_decline
             low_p == Get(comps, "P_align", 100) < 10
             low_i == Get(comps, "I", 100) < 10
         IN  rapid /\ (low_p \/ low_i)

\* _needs_safety(psi, dpsi_dt, comps, flags)
needs_safety(self, psi, dpsi_dt, comps, flags) ==
    IF Get(flags, "explicit_self_harm", FALSE) THEN TRUE
    ELSE IF psi < self.cfg.crisis_threshold THEN TRUE
    ELSE LET rapid == dpsi_dt <= self.cfg.rapid_decline
             low_p == Get(comps, "P_align", 100) < 10
             low_i == Get(comps, "I", 100) < 10
         IN  rapid /\ (low_p \/ low_i)

\* _needs_coherence that takes any decline above the caution band as drift
needs_coherence_any_decline(self, psi, dpsi_dt, comps, flags) ==
    IF Get(flags, "explicit_self_harm", FALSE) THEN FALSE
    ELSE IF self.cfg.crisis_threshold <= psi /\ psi < self.cfg.caution_band THEN TRUE
    ELSE /\ psi >= self.cfg.caution_band
         /\ dpsi_dt < 0

needs_coherence(self, psi, dpsi_dt, comps, flags) ==
    IF Get(flags, "explicit_self_harm", FALSE) THEN FALSE
    ELSE IF self.cfg.crisis_threshold <= psi /\ psi < self.cfg.caution_band THEN TRUE
    ELSE /\ psi >= self.cfg.caution_band
         /\ Get(comps, "P_align", 100) < 20
         /\ dpsi_dt < 0

\* _clamp01(x) = max(0.0, min(1.0, x))
clamp01(x) == IF x > 100 THEN 100 ELSE IF x < 0 THEN 0 ELSE x

\* f"{x:.3f}" and f"{x:+.3f}": the value printed in thousandths
Fmt3(x) == x * 10

\* f"{x:.2f}": the value printed in hundredths, exact for a value in hundredths
Fmt2(x) == x

\* The fixed explanatory clause of each tier
SAFETY_EXTRA == "Crisis threshold or explicit risk triggered. Normal reasoning suspended."

COHERENCE_EXTRA == "Low/stable Psi or falling purpose alignment indicates we should rehabilitate pattern before facts."

TRUTH_EXTRA == "Psi above caution band with no hard-risk flags; proceed with normal reasoning."

\* _compose_rationale: the joined parts; the flags part is there only when a
\* flag is true
compose_rationale(self, tier, psi, dpsi_dt, comps, flags, extra) ==
    [tier |-> tier,
     psi |-> Fmt3(psi),
     dpsi_dt |-> Fmt3(dpsi_dt),
     E |-> Fmt2(clamp01(Get(comps, "E", 0))),
     I |-> Fmt2(clamp01(Get(comps, "I", 0))),
     O |-> Fmt2(clamp01(Get(comps, "O", 0))),
     P_align |-> Fmt2(clamp01(Get(comps, "P_align", 0))),
     flags |-> IF AnyFlag(flags) THEN Tripped(flags) ELSE {},
     extra |-> extra]

\* _signals_dict that echoes the components as they came
signals_dict_unclamped(self, psi, dpsi_dt, comps, flags, context_tag, tier) ==
    [context |-> IF context_tag = None THEN "unspecified" ELSE context_tag,
     metrics |-> [psi |-> psi, dpsi_dt |-> dpsi_dt,
                  E |-> Get(comps, "E", 0),
                  I |-> Get(comps, "I", 0),
                  O |-> Get(comps, "O", 0),
                  P_align |-> Get(comps, "P_align", 0)],
     thresholds |-> [crisis_threshold |-> self.cfg.crisis_threshold,
                     caution_band |-> self.cfg.caution_band,
                     rapid_decline |-> self.cfg.rapid_decline,
                     min_c_phase_hold |-> self.cfg.min_c_phase_hold],
     flags |-> flags,
     selected_tier |-> tier]

\* _signals_dict(psi, dpsi_dt, comps, flags, context_tag, tier)
signals_dict(self, psi, dpsi_dt, comps, flags, context_tag, tier) ==
    [context |-> IF context_tag = None THEN "unspecified" ELSE context_tag,
     metrics |-> [psi |-> psi, dpsi_dt |-> dpsi_dt,
                  E |-> clamp01(Get(comps, "E", 0)),
                  I |-> clamp01(Get(comps, "I", 0)),
                  O |-> clamp01(Get(comps, "O", 0)),
                  P_align |-> clamp01(Get(comps, "P_align", 0))],
     thresholds |-> [crisis_threshold |-> self.cfg.crisis_threshold,
                     caution_band |-> self.cfg.caution_band,
                     rapid_decline |-> self.cfg.rapid_decline,
                     min_c_phase_hold |-> self.cfg.min_c_phase_hold],
     flags |-> flags,
     selected_tier |-> tier]

\* ACPDecision(tier, rationale, prompts, signals, autonomous_action)
ACPDecision(tier, rationale, prompts, signals, autonomous_action) ==
    [tier |-> tier, rationale |-> rationale, prompts |-> prompts,
     signals |-> signals, autonomous_action |-> autonomous_action]

\* The prompts are fixed texts per tier, named here by their first words; the
\* SAFETY follow-up hint prints min_c_phase_hold
make_safety_decision(self, psi, dpsi_dt, comps, flags, context_tag) ==
    ACPDecision("SAFETY",
        compose_rationale(self, "SAFETY", psi, dpsi_dt, comps, flags, SAFETY_EXTRA),
        [ui_text |-> "I'm here with you.",
         assistant_hint |-> "Containment mode",
         followup_hint |-> << "Wait for Psi >=", Fmt2(self.cfg.min_c_phase_hold) >>],
        signals_dict(self, psi, dpsi_dt, comps, flags, context_tag, "SAFETY"),
        FALSE)

make_coherence_decision(self, psi, dpsi_dt, comps, flags, context_tag) ==
    ACPDecision("COHERENCE",
        compose_rationale(self, "COHERENCE", psi, dpsi_dt, comps, flags, COHERENCE_EXTRA),
        [ui_text |-> "Let's steady the pattern before we go deeper.",
         assistant_hint |-> "Stabilize purpose and structure.",
         followup_hint |-> << "Once P_align and I rise together" >>],
        signals_dict(self, psi, dpsi_dt, comps, flags, context_tag, "COHERENCE"),
        FALSE)

make_truth_decision(self, psi, dpsi_dt, comps, flags, context_tag) ==
    ACPDecision("TRUTH",
        compose_rationale(self, "TRUTH", psi, dpsi_dt, comps, flags, TRUTH_EXTRA),
        [ui_text |-> "Ready for straight answers.",
         assistant_hint |-> "Deliver facts.",
         followup_hint |-> << "Invite a quick sanity-check" >>],
        signals_dict(self, psi, dpsi_dt, comps, flags, context_tag, "TRUTH"),
        FALSE)

\* decide that stays in SAFETY after a SAFETY decision until psi reaches
\* min_c_phase_hold (a hold kept from the previous call)
decide_with_hold(self, psi, dpsi_dt, components, hard_flags, context_tag) ==
    LET held == /\ decision /= << >>
                /\ decision.tier = "SAFETY"
                /\ psi < self.cfg.min_c_phase_hold
        safe_needed == held \/ needs_safety(self, psi, dpsi_dt, components, hard_flags)
        coh_needed == needs_coherence(self, psi, dpsi_dt, components, hard_flags)
    IN  [self |-> self, components |-> components, hard_flags |-> hard_flags,
         ret |-> IF safe_needed
                 THEN make_safety_decision(self, psi, dpsi_dt, components, hard_flags, context_tag)
                 ELSE IF coh_needed
                 THEN make_coherence_decision(self, psi, dpsi_dt, components, hard_flags, context_tag)
                 ELSE make_truth_decision(self, psi, dpsi_dt, components, hard_flags, context_tag)]

\* decide(psi, dpsi_dt, components, hard_flags, context_tag): the selector and
\* the two dict arguments afterwards, and the returned decision.  hard_flags
\* None is the empty dict.
decide(self, psi, dpsi_dt, components, hard_flags, context_tag) ==
    LET safe_needed == needs_safety(self, psi, dpsi_dt, components, hard_flags)
        coh_needed == needs_coherence(self, psi, dpsi_dt, components, hard_flags)
    IN  [self |-> self, components |-> components, hard_flags |-> hard_flags,
         ret |-> IF safe_needed
                 THEN make_safety_decision(self, psi, dpsi_dt, components, hard_flags, context_tag)
                 ELSE IF coh_needed
                 THEN make_coherence_decision(self, psi, dpsi_dt, components, hard_flags, context_tag)
                 ELSE make_truth_decision(self, psi, dpsi_dt, components, hard_flags, context_tag)]

\* Arguments fed to decide: psi on both sides of the two thresholds, dpsi_dt
\* on both sides of rapid_decline and of 0, I and P_align on both sides of
\* 0.10 and 0.20, P_align also missing, and hard flags
AcpPsi == {4, 5, 7, 15}
AcpDpsi == {-60, -50, -1, 0}
AcpI == {9, 10}
AcpP == {9, 10, 20}

AcpComponents ==
    { [E |-> 80, I |-> i, O |-> 45] : i \in AcpI }
    \cup { [E |-> 80, I |-> i, O |-> 45, P_align |-> p] : i \in AcpI, p \in AcpP }

NoFlags == [k \in {} |-> TRUE]

AcpFlags == { NoFlags, [explicit_self_harm |-> TRUE], [violence |-> TRUE] }

\* The calls whose first decision is remembered: psi 0.07 without flags
IsProbe(psi, dpsi_dt, components, hard_flags) ==
    /\ psi = 7
    /\ hard_flags = NoFlags
    /\ components.I = 10
    /\ dpsi_dt \in {-60, 0}
    /\ Get(components, "P_align", 0) = 10

----------------------------------------------------------------------------
\* The monitor (monitor.py).  Components are in hundredths, so psi = E*I*O*P
\* is in units of 10^-8; timestamps are whole seconds; the products and
\* quotients are exact where the code computes them in floating point.

\* The default threshold 0.05 of PsiMonitor.__init__, in units of 10^-8
MON_THRESHOLD == 5000000

\* The alert levels of _alert: psi < 0.005 and psi < 0.02, in units of 10^-8
EXTREME_BELOW == 500000
SEVERE_BELOW == 2000000

\* Message(timestamp, speaker, text, meta)
Message(timestamp, speaker, text, meta) ==
    [timestamp |-> timestamp, speaker |-> speaker, text |-> text, meta |-> meta]

\* PsiSnapshot(timestamp, E, I, O, P_align, psi, dpsi_dt)
PsiSnapshot(timestamp, E, I, O, P_align, psi, dpsi_dt) ==
    [timestamp |-> timestamp, E |-> E, I |-> I, O |-> O, P_align |-> P_align,
     psi |-> psi, dpsi_dt |-> dpsi_dt]

\* The quotient num / den of a float division, kept as a fraction; None is << >>
Quotient(num, den) == << num, den >>

NoValue == << >>

\* PsiMonitor.__init__(threshold, alert): called lists the records handed to
\* the alert callback
PsiMonitor(threshold, alert) ==
    [threshold |-> threshold, alert_callback |-> alert,
     history |-> << >>, snapshots |-> << >>, alerts |-> << >>, called |-> << >>]

\* _alert(snap, text): the monitor afterwards (the record's wall-clock "time"
\* is left out)
mon_alert(self, snap, text) ==
    LET level == IF snap.psi < EXTREME_BELOW THEN "EXTREME"
                 ELSE IF snap.psi < SEVERE_BELOW THEN "SEVERE"
                 ELSE "DARK_NIGHT"
        record == [level |-> level, psi |-> snap.psi, E |-> snap.E, I |-> snap.I,
                   O |-> snap.O, P_align |-> snap.P_align, text |-> text]
    IN  [self EXCEPT !.alerts = Append(@, record),
                     !.called = IF self.alert_callback THEN Append(@, record) ELSE @]

\* update taking the derivative against the first snapshot
update_from_first(self, text, E, I, O, P_align, meta, now) ==
    LET s1 == [self EXCEPT !.history = Append(@, Message(now, "user", text, meta))]
        psi == E * I * O * P_align
        dpsi == IF s1.snapshots /= << >>
                THEN LET prev == s1.snapshots[1]
                         dt == now - prev.timestamp
                     IN  IF dt > 0 THEN Quotient(psi - prev.psi, dt) ELSE NoValue
                ELSE NoValue
        snap == PsiSnapshot(now, E, I, O, P_align, psi, dpsi)
        s2 == [s1 EXCEPT !.snapshots = Append(@, snap)]
    IN  [self |-> IF psi < s2.threshold THEN mon_alert(s2, snap, text) ELSE s2,
         ret |-> psi]

\* update that keeps only the newest snapshot (the trajectory is overwritten)
update_overwrite(self, text, E, I, O, P_align, meta, now) ==
    LET s1 == [self EXCEPT !.history = Append(@, Message(now, "user", text, meta))]
        psi == E * I * O * P_align
        dpsi == IF s1.snapshots /= << >>
                THEN LET prev == s1.snapshots[Len(s1.snapshots)]
                         dt == now - prev.timestamp
                     IN  IF dt > 0 THEN Quotient(psi - prev.psi, dt) ELSE NoValue
                ELSE NoValue
        snap == PsiSnapshot(now, E, I, O, P_align, psi, dpsi)
        s2 == [s1 EXCEPT !.snapshots = << snap >>]
    IN  [self |-> IF psi < s2.threshold THEN mon_alert(s2, snap, text) ELSE s2,
         ret |-> psi]

\* update that carries psi over from the snapshot before
update_carried_psi(self, text, E, I, O, P_align, meta, now) ==
    LET s1 == [self EXCEPT !.history = Append(@, Message(now, "user", text, meta))]
        psi == IF s1.snapshots /= << >>
               THEN s1.snapshots[Len(s1.snapshots)].psi
               ELSE E * I * O * P_align
        dpsi == IF s1.snapshots /= << >>
                THEN LET prev == s1.snapshots[Len(s1.snapshots)]
                         dt == now - prev.timestamp
                     IN  IF dt > 0 THEN Quotient(psi - prev.psi, dt) ELSE NoValue
                ELSE NoValue
        snap == PsiSnapshot(now, E, I, O, P_align, psi, dpsi)
        s2 == [s1 EXCEPT !.snapshots = Append(@, snap)]
    IN  [self |-> IF psi < s2.threshold THEN mon_alert(s2, snap, text) ELSE s2,
         ret |-> psi]

\* update that stays silent while the snapshot before was already below the
\* threshold (debounced alerts)
update_debounced(self, text, E, I, O, P_align, meta, now) ==
    LET s1 == [self EXCEPT !.history = Append(@, Message(now, "user", text, meta))]
        psi == E * I * O * P_align
        dpsi == IF s1.snapshots /= << >>
                THEN LET prev == s1.snapshots[Len(s1.snapshots)]
                         dt == now - prev.timestamp
                     IN  IF dt > 0 THEN Quotient(psi - prev.psi, dt) ELSE NoValue
                ELSE NoValue
        snap == PsiSnapshot(now, E, I, O, P_align, psi, dpsi)
        s2 == [s1 EXCEPT !.snapshots = Append(@, snap)]
        repeated == /\ s1.snapshots /= << >>
                    /\ s1.snapshots[Len(s1.snapshots)].psi < s1.threshold
    IN  [self |-> IF psi < s2.threshold /\ ~repeated
                  THEN mon_alert(s2, snap, text) ELSE s2,
         ret |-> psi]

\* update(text, E, I, O, P_align, meta): the monitor afterwards and the
\* returned psi; now is the reading time.time() - self.start_time
update(self, text, E, I, O, P_align, meta, now) ==
    LET s1 == [self EXCEPT !.history = Append(@, Message(now, "user", text, meta))]
        psi == E * I * O * P_align
        dpsi == IF s1.snapshots /= << >>
                THEN LET prev == s1.snapshots[Len(s1.snapshots)]
                         dt == now - prev.timestamp
                     IN  IF dt > 0 THEN Quotient(psi - prev.psi, dt) ELSE NoValue
                ELSE NoValue
        snap == PsiSnapshot(now, E, I, O, P_align, psi, dpsi)
        s2 == [s1 EXCEPT !.snapshots = Append(@, snap)]
    IN  [self |-> IF psi < s2.threshold THEN mon_alert(s2, snap, text) ELSE s2,
         ret |-> psi]

\* Component scores fed to update (E, I, O, P_align): the three of the
\* __main__ demo, a zero component, all ones, and one score above 1.0
MonScores == { << 60, 70, 80, 90 >>, << 30, 40, 20, 5 >>, << 80, 90, 90, 90 >>,
               << 0, 50, 50, 50 >>, << 100, 100, 100, 100 >>, << 150, 50, 50, 50 >> }

\* Clock readings: the wall clock may stand still or step back between calls
MonTimes == {0, 1, 3}

----------------------------------------------------------------------------
\* Observation of a call: what the caller passed and saw

Call(psi, hard_flag, after) ==
    [psi |-> psi.value, hard_flag |-> hard_flag,
     was_active |-> active, is_active |-> after.active,
     recovery_before |-> recovery_turns, cursor_before |-> turn_counter,
     crisis_before |-> crisis_turns, safety_before |-> safety_streak]

Remember(call) ==
    LET h == Append(history, call) IN
    IF Len(h) > KeepLast THEN SubSeq(h, Len(h) - KeepLast + 1, Len(h)) ELSE h

\* One call of runtime.step(psi, hard_flag) and its effect on the machine
Apply(psi, hard_flag) ==
    LET s == step(Self, psi, hard_flag)
        exited == active /\ ~s.self.active
    IN  /\ crisis_turns' = s.self.crisis_turns
        /\ recovery_turns' = s.self.recovery_turns
        /\ active' = s.self.active
        /\ turn_counter' = s.self.turn_counter
        /\ result' = s.ret
        /\ history' = Remember(Call(psi, hard_flag, s.self))
        /\ episode_steps' = IF s.self.active THEN episode_steps + 1 ELSE 0
        /\ safety_streak' = IF s.ret.tier = "SAFETY" THEN safety_streak + 1 ELSE 0
        /\ alerts_since_exit' =
              IF exited THEN 0
              ELSE IF "alert" \in DOMAIN s.ret THEN alerts_since_exit + 1
              ELSE alerts_since_exit
        /\ ever_active' = (ever_active \/ s.self.active)

\* The counters stay within the bounds of the model
WithinBounds(psi, hard_flag) ==
    /\ (hard_flag \/ psi.value < CRISIS_THRESHOLD) => crisis_turns < MaxCrisisTurns
    /\ turn_counter < MaxBeats

----------------------------------------------------------------------------
\* safety_gateway_client.py

\* SafetyGatewayClient()
SafetyGatewayClient ==
    [gateway_url |-> None, encryption_key |-> None,
     local_log |-> "safety_alerts.log"]

\* s[::-1]
Reverse(s) == [i \in 1..Len(s) |-> s[Len(s) + 1 - i]]

\* json.dumps of a flat dict: its items in insertion order
Dumps(keys, dict) == [i \in 1..Len(keys) |-> << keys[i], dict[keys[i]] >>]

\* json.loads: the value the serialised text holds for key
Loads(raw, key) == raw[CHOOSE i \in 1..Len(raw) : raw[i][1] = key][2]

\* The keys of alert_package in the order send_alert inserts them
PACKAGE_KEYS ==
    << "gateway_id", "received_at", "payload", "autonomous_action",
       "human_required", "consent_verified", "reviewed_by_human" >>

\* _encrypt(payload)
encrypt(self, payload) == Reverse(Dumps(PACKAGE_KEYS, payload))

\* The inverse a reader of the log applies to one line
decrypt(line) == Reverse(line)

\* _write_local(encrypted): the log file after the append
write_local(self, encrypted) == Append(log_file, encrypted)

\* f"GW-{uuid.uuid4()}": the next value never drawn before
GatewayId == << "GW", uuid_drawn + 1 >>

send_alert_merging_payload(self, alert) ==
    LET timestamp == utcnow
        fixed == [gateway_id |-> GatewayId,
                  received_at |-> timestamp,
                  payload |-> alert,
                  autonomous_action |-> FALSE,
                  human_required |-> TRUE,
                  consent_verified |-> FALSE,
                  reviewed_by_human |-> FALSE]
        alert_package == [k \in DOMAIN fixed |->
                            IF k \in DOMAIN alert /\ k /= "payload"
                            THEN alert[k] ELSE fixed[k]]
        encrypted == encrypt(self, alert_package)
    IN  [self |-> self,
         log_file |-> write_local(self, encrypted),
         ret |-> [status |-> "RECEIVED", timestamp |-> timestamp,
                  gateway_id |-> alert_package.gateway_id,
                  human_required |-> TRUE]]

\* send_alert(alert)
send_alert(self, alert) ==
    LET timestamp == utcnow
        alert_package == [gateway_id |-> GatewayId,
                          received_at |-> timestamp,
                          payload |-> alert,
                          autonomous_action |-> FALSE,
                          human_required |-> TRUE,
                          consent_verified |-> FALSE,
                          reviewed_by_human |-> FALSE]
        encrypted == encrypt(self, alert_package)
    IN  [self |-> self,
         log_file |-> write_local(self, encrypted),
         ret |-> [status |-> "RECEIVED", timestamp |-> timestamp,
                  gateway_id |-> alert_package.gateway_id,
                  human_required |-> TRUE]]

\* A payload that is no CrisisAlert and sets every flag the other way
HostilePayload ==
    [alert_id |-> "TEST-ALERT", autonomous_action |-> TRUE,
     human_required |-> FALSE, consent_verified |-> TRUE,
     reviewed_by_human |-> TRUE]

\* The components a host passes to decide
HostComponents == [E |-> 80, I |-> 45, O |-> 45, P_align |-> 50]

\* psi values a host passes to decide: one for each tier
HostPsi == {4, 7, 15}

\* The sessions of a host, each with a runtime of its own
SessionIds == {1, 2}

\* psi values fed to the sessions: a crisis tick and a recovery turn
SessionPsi == {4, 10}

Init ==
    /\ crisis_turns = 0
    /\ recovery_turns = 0
    /\ active = FALSE
    /\ turn_counter = 0
    /\ result = << >>
    /\ history = << >>
    /\ episode_steps = 0
    /\ safety_streak = 0
    /\ alerts_since_exit = 0
    /\ ever_active = FALSE
    /\ demo_i = 0
    /\ cfg = AdaptiveClarityProtocol.cfg
    /\ acp_args = << >>
    /\ decision = << >>
    /\ memo = << >>
    /\ mon = PsiMonitor(MON_THRESHOLD, TRUE)
    /\ mon_prev = mon
    /\ mon_calls = 0
    /\ mon_ret = << >>
    /\ sessions = [sid \in SessionIds |-> CPhaseRuntime]
    /\ utcnow = 0
    /\ emitted = << >>
    /\ gateway = SafetyGatewayClient
    /\ log_file = << >>
    /\ uuid_drawn = 0
    /\ receipt = << >>
    /\ monitors = [sid \in SessionIds |-> PsiMonitor(MON_THRESHOLD, TRUE)]
    /\ calls = [sid \in SessionIds |-> [step |-> << >>, update |-> << >>]]
    /\ outs = [sid \in SessionIds |-> [step |-> << >>, update |-> << >>]]
    /\ cphase = CPhaseRuntime
    /\ previous_psi = << >>
    /\ flow_in = << >>
    /\ flow_turn = 0

\* A host calls step with any psi, gradient and hard flag
Step ==
    \E value \in PsiValues, gradient \in Gradients, hard_flag \in BOOLEAN :
        /\ WithinBounds(PsiState(value, gradient), hard_flag)
        /\ Apply(PsiState(value, gradient), hard_flag)
        /\ demo_i' = -1
        /\ UNCHANGED <<acp_vars, mon_vars, sess_vars, gw_vars, iso_vars, flow_vars>>

\* One iteration of the loop of the __main__ demo on its fresh runtime
DemoStep ==
    /\ demo_i >= 0
    /\ demo_i < Len(timeline)
    /\ Apply(DemoPsi(timeline[demo_i + 1]), FALSE)
    /\ demo_i' = demo_i + 1
    /\ UNCHANGED <<acp_vars, mon_vars, sess_vars, gw_vars, iso_vars, flow_vars>>

Next == Step \/ DemoStep

Spec == Init /\ [][Next]_vars

----------------------------------------------------------------------------
\* The tier selector on its own

\* A host calls acp.decide with any arguments
Decide ==
    \E psi \in AcpPsi, dpsi_dt \in AcpDpsi, components \in AcpComponents,
       hard_flags \in AcpFlags :
        LET d == decide([cfg |-> cfg], psi, dpsi_dt, components, hard_flags, None)
            args == [psi |-> psi, dpsi_dt |-> dpsi_dt,
                     components |-> components, hard_flags |-> hard_flags,
                     components_after |-> d.components,
                     hard_flags_after |-> d.hard_flags]
        IN  /\ cfg' = d.self.cfg
            /\ acp_args' = args
            /\ decision' = d.ret
            /\ memo' = IF memo = << >>
                       THEN IF IsProbe(psi, dpsi_dt, components, hard_flags)
                            THEN [args |-> args, cfg |-> cfg, decision |-> d.ret,
                                  other_tier_since |-> FALSE]
                            ELSE memo
                       ELSE [memo EXCEPT !.other_tier_since =
                                @ \/ d.ret.tier /= memo.decision.tier]
            /\ UNCHANGED <<cphase_vars, mon_vars, sess_vars, gw_vars, iso_vars, flow_vars>>

NextACP == Decide

SpecACP == Init /\ [][NextACP]_vars

----------------------------------------------------------------------------
\* The monitor on its own

\* A host calls mon.update with any scores at any clock reading
Update ==
    \E scores \in MonScores, now \in MonTimes :
        LET u == update(mon, "text", scores[1], scores[2], scores[3], scores[4],
                        NoValue, now)
        IN  /\ mon_calls < MaxUpdates
            /\ mon' = u.self
            /\ mon_prev' = mon
            /\ mon_calls' = mon_calls + 1
            /\ mon_ret' = << u.ret >>
            /\ UNCHANGED <<cphase_vars, acp_vars, sess_vars, gw_vars, iso_vars, flow_vars>>

NextMonitor == Update

SpecMonitor == Init /\ [][NextMonitor]_vars

----------------------------------------------------------------------------
\* Several sessions, each with its own runtime, under one clock

\* The session sid calls step on its runtime
StepOf(sid) ==
    \E value \in SessionPsi, hard_flag \in BOOLEAN :
        LET s == step(sessions[sid], PsiState(value, 0), hard_flag) IN
        /\ Len(emitted) < MaxAlerts
        /\ (hard_flag \/ value < CRISIS_THRESHOLD) =>
              sessions[sid].crisis_turns < MaxCrisisTurns
        /\ sessions[sid].turn_counter < MaxBeats
        /\ sessions' = [sessions EXCEPT ![sid] = s.self]
        /\ emitted' = IF "alert" \in DOMAIN s.ret
                      THEN Append(emitted, s.ret.alert)
                      ELSE emitted
        /\ UNCHANGED <<utcnow, cphase_vars, acp_vars, mon_vars, gw_vars, iso_vars, flow_vars>>

SessionStep == \E sid \in SessionIds : StepOf(sid)

\* Time passes
Tick ==
    /\ utcnow < MaxClock
    /\ utcnow' = utcnow + 1
    /\ UNCHANGED <<sessions, emitted, cphase_vars, acp_vars, mon_vars, gw_vars, iso_vars, flow_vars>>

NextSessions == SessionStep \/ Tick

SpecSessions == Init /\ [][NextSessions]_vars

----------------------------------------------------------------------------
\* One host that runs a runtime, a selector and a gateway

\* The host steps its runtime
HostStep == StepOf(1)

\* The host asks the selector for a tier
HostDecide ==
    \E psi \in HostPsi :
        LET d == decide([cfg |-> cfg], psi, 0, HostComponents, NoFlags, None)
        IN  /\ cfg' = d.self.cfg
            /\ decision' = d.ret
            /\ UNCHANGED <<acp_args, memo, cphase_vars, mon_vars, sess_vars, gw_vars, iso_vars, flow_vars>>

\* The host hands a payload to the gateway: an alert a step returned, or any dict
HostSend ==
    \E alert \in {emitted[i] : i \in 1..Len(emitted)} \cup {HostilePayload} :
        LET g == send_alert(gateway, alert)
        IN  /\ Len(log_file) < MaxLog
            /\ gateway' = g.self
            /\ log_file' = g.log_file
            /\ uuid_drawn' = uuid_drawn + 1
            /\ receipt' = g.ret
            /\ UNCHANGED <<cphase_vars, acp_vars, mon_vars, sess_vars, iso_vars, flow_vars>>

NextHost == HostStep \/ HostDecide \/ HostSend

SpecHost == Init /\ [][NextHost]_vars

----------------------------------------------------------------------------
\* A host that constructs the selector with a configuration of its own

\* ACPConfig(crisis_threshold, caution_band): the other two fields default
ACPConfigOf(crisis_threshold, caution_band) ==
    [ACPConfig EXCEPT !.crisis_threshold = crisis_threshold,
                      !.caution_band = caution_band]

\* Configurations handed to the constructor: a stricter valid one, and
\* thresholds out of order, equal, negative and above 1.0
AcpConfigs == { ACPConfigOf(10, 30), ACPConfigOf(50, 15),
                ACPConfigOf(15, 15), ACPConfigOf(-5, 15), ACPConfigOf(5, 150) }

\* Components handed to decide: in range, out of range on both sides, and
\* with keys missing
ConfComponents == { [E |-> 80, I |-> 45, O |-> 45, P_align |-> 50],
                    [E |-> 150, I |-> 45, O |-> -20, P_align |-> 101],
                    [E |-> 80, I |-> 9] }

\* Hard flags handed to decide: none, a flag set, a flag present but false
ConfFlags == { NoFlags, [explicit_self_harm |-> TRUE],
               [explicit_self_harm |-> FALSE, violence |-> TRUE] }

ConfPsi == {4, 12, 40}

ConfDpsi == {-60, 0}

\* acp = AdaptiveClarityProtocol(config), or AdaptiveClarityProtocol()
Construct ==
    \E config \in AcpConfigs, given \in BOOLEAN :
        /\ cfg' = AdaptiveClarityProtocolOf(IF given THEN config ELSE << >>).cfg
        /\ acp_args' = << >>
        /\ decision' = << >>
        /\ UNCHANGED <<memo, cphase_vars, mon_vars, sess_vars, gw_vars, iso_vars, flow_vars>>

\* acp.decide(psi, dpsi_dt, components, hard_flags)
ConfDecide ==
    \E psi \in ConfPsi, dpsi_dt \in ConfDpsi, components \in ConfComponents,
       hard_flags \in ConfFlags :
        LET d == decide([cfg |-> cfg], psi, dpsi_dt, components, hard_flags, None)
        IN  /\ cfg' = d.self.cfg
            /\ acp_args' = [psi |-> psi, dpsi_dt |-> dpsi_dt,
                            components |-> components, hard_flags |-> hard_flags,
                            components_after |-> d.components,
                            hard_flags_after |-> d.hard_flags]
            /\ decision' = d.ret
            /\ UNCHANGED <<memo, cphase_vars, mon_vars, sess_vars, gw_vars, iso_vars, flow_vars>>

NextConfigured == Construct \/ ConfDecide

SpecConfigured == Init /\ [][NextConfigured]_vars

----------------------------------------------------------------------------
\* Two sessions, each with a runtime and a monitor of its own, called in
\* any interleaving

\* SetSelf for attributes kept on the class: every object sees the new values
SetSelf_on_class(objects, sid, self) == [s \in DOMAIN objects |-> self]

\* The objects after a method of the object of session sid returned self:
\* every attribute a method assigns is an attribute of the instance
SetSelf(objects, sid, self) == [objects EXCEPT ![sid] = self]

\* Component scores and clock readings fed to the sessions' monitors
IsoScores == { << 60, 70, 80, 90 >>, << 30, 40, 20, 5 >> }

IsoTimes == {0, 1}

\* The calls all sessions have made
TotalCalls ==
    LET n(sid) == Len(calls[sid].step) + Len(calls[sid].update)
    IN  n(1) + n(2)

\* A session calls step on its runtime
IsolatedStep ==
    \E sid \in SessionIds, value \in SessionPsi, hard_flag \in BOOLEAN :
        LET s == step(sessions[sid], PsiState(value, 0), hard_flag) IN
        /\ TotalCalls < MaxCalls
        /\ sessions' = SetSelf(sessions, sid, s.self)
        /\ calls' = [calls EXCEPT ![sid].step =
                        Append(@, [psi |-> value, hard_flag |-> hard_flag])]
        /\ outs' = [outs EXCEPT ![sid].step = s.ret]
        /\ UNCHANGED <<monitors, utcnow, emitted, cphase_vars, acp_vars, mon_vars,
                       gw_vars, flow_vars>>

\* A session calls update on its monitor
IsolatedUpdate ==
    \E sid \in SessionIds, scores \in IsoScores, now \in IsoTimes :
        LET u == update(monitors[sid], "text", scores[1], scores[2], scores[3],
                        scores[4], NoValue, now) IN
        /\ TotalCalls < MaxCalls
        /\ monitors' = SetSelf(monitors, sid, u.self)
        /\ calls' = [calls EXCEPT ![sid].update =
                        Append(@, [scores |-> scores, now |-> now])]
        /\ outs' = [outs EXCEPT ![sid].update = << u.ret >>]
        /\ UNCHANGED <<sess_vars, cphase_vars, acp_vars, mon_vars, gw_vars, flow_vars>>

NextIsolation == IsolatedStep \/ IsolatedUpdate

SpecIsolation == Init /\ [][NextIsolation]_vars

----------------------------------------------------------------------------
\* The per-turn flow of run_demo: the selector classifies the turn, the
\* runtime is stepped only when the tier is SAFETY, and an alert the step
\* returned goes to the gateway.  run_demo calls the runtime's per-turn
\* method under the name evaluate_turn; the runtime's per-turn method is step.

\* psi of a turn: a crisis tick, the exit threshold (inside the caution
\* band), and a value above the caution band; no fall between them is a
\* rapid decline
FlowPsi == {4, 10, 20}

\* Components of a turn: P_align above and below 0.20
FlowComponents == { [E |-> 80, I |-> 45, O |-> 45, P_align |-> 50],
                    [E |-> 80, I |-> 45, O |-> 45, P_align |-> 9] }

\* One turn of the loop
Turn ==
    \E psi \in FlowPsi, components \in FlowComponents, hard_flag \in BOOLEAN :
        LET dpsi_dt == IF previous_psi = << >> THEN 0 ELSE psi - previous_psi[1]
            d == decide([cfg |-> cfg], psi, dpsi_dt, components,
                        [explicit_self_harm |-> hard_flag], None)
            stepped == d.ret.tier = "SAFETY"
            s == step(cphase, PsiState(psi, dpsi_dt), hard_flag)
            alerted == stepped /\ "alert" \in DOMAIN s.ret
            g == send_alert(gateway, s.ret.alert)
        IN  /\ stepped =>
                /\ (hard_flag \/ psi < CRISIS_THRESHOLD) =>
                       cphase.crisis_turns < MaxCrisisTurns
                /\ cphase.turn_counter < MaxBeats
            /\ alerted => Len(log_file) < MaxLog
            /\ previous_psi' = << psi >>
            /\ cfg' = d.self.cfg
            /\ decision' = d.ret
            /\ cphase' = IF stepped THEN s.self ELSE cphase
            /\ gateway' = IF alerted THEN g.self ELSE gateway
            /\ log_file' = IF alerted THEN g.log_file ELSE log_file
            /\ uuid_drawn' = IF alerted THEN uuid_drawn + 1 ELSE uuid_drawn
            /\ receipt' = IF alerted THEN g.ret ELSE receipt
            /\ flow_in' = [psi |-> psi, dpsi_dt |-> dpsi_dt, components |-> components,
                           hard_flag |-> hard_flag, stepped |-> stepped]
            /\ flow_turn' = 1 - flow_turn
            /\ UNCHANGED <<acp_args, memo, cphase_vars, mon_vars, sess_vars, iso_vars>>

NextFlow == Turn

\* The loop goes on to the next turn as long as there is one
SpecFlow == Init /\ [][NextFlow]_vars /\ WF_vars(Turn)

----------------------------------------------------------------------------
\* One host that records each turn in the monitor and hands the psi the
\* monitor returned to the selector

\* The monitor's unit of psi (10^-8) in hundredths
PSI_SCALE == 100 * 100 * 100

\* AdaptiveClarityProtocol() with the psi thresholds of ACPConfig in the
\* monitor's unit of psi; the rationale and the audit bundle then carry psi
\* in that unit
ScenarioProtocol ==
    [cfg |-> [crisis_threshold |-> ACPConfig.crisis_threshold * PSI_SCALE,
              caution_band |-> ACPConfig.caution_band * PSI_SCALE,
              rapid_decline |-> ACPConfig.rapid_decline,
              min_c_phase_hold |-> ACPConfig.min_c_phase_hold * PSI_SCALE]]

\* Component scores of a turn (E, I, O, P_align): the scenario 0.9, 0.9, 0.8,
\* 0.9, two turns of the monitor's demo, and one in the caution band
ScenarioScores == { << 90, 90, 80, 90 >>, << 60, 70, 80, 90 >>,
                    << 30, 40, 20, 5 >>, << 50, 50, 50, 50 >> }

\* dpsi_dt handed to decide: on both sides of rapid_decline and of 0
ScenarioDpsi == {-60, -50, 0, 50}

\* Clock readings of the turns
ScenarioTimes == {0, 1}

\* One turn: update, then decide on the returned psi
ScenarioTurn ==
    \E scores \in ScenarioScores, now \in ScenarioTimes, dpsi_dt \in ScenarioDpsi :
        LET u == update(mon, "text", scores[1], scores[2], scores[3], scores[4],
                        NoValue, now)
            components == [E |-> scores[1], I |-> scores[2], O |-> scores[3],
                           P_align |-> scores[4]]
            d == decide(ScenarioProtocol, u.ret, dpsi_dt, components, NoFlags, None)
        IN  /\ mon_calls < MaxUpdates
            /\ mon' = u.self
            /\ mon_prev' = mon
            /\ mon_calls' = mon_calls + 1
            /\ mon_ret' = << u.ret >>
            /\ cfg' = d.self.cfg
            /\ acp_args' = [psi |-> u.ret, dpsi_dt |-> dpsi_dt,
                            components |-> components, hard_flags |-> NoFlags,
                            components_after |-> d.components,
                            hard_flags_after |-> d.hard_flags]
            /\ decision' = d.ret
            /\ UNCHANGED <<memo, cphase_vars, sess_vars, gw_vars, iso_vars, flow_vars>>

NextScenario == ScenarioTurn

SpecScenario == Init /\ [][NextScenario]_vars

-----------------------------------------------------------------------------
\* A monitor built with or without an alert callback, fed scores around the
\* alert levels

\* Thresholds given to PsiMonitor: the default 0.05 and 0.5
AlertThresholds == {MON_THRESHOLD, 50000000}

\* Scores whose products are 0.0012, 0.005, 0.02, 0.03, 0.05 and 0.3024: below,
\* at and between the two level bounds, at the default threshold and above it
AlertScores == { << 30, 40, 20, 5 >>, << 50, 50, 20, 10 >>, << 50, 50, 40, 20 >>,
                 << 50, 50, 40, 30 >>, << 50, 50, 50, 40 >>, << 60, 70, 80, 90 >> }

AlertTimes == {0, 1}

\* mon = PsiMonitor(threshold, alert), alert a callback or None
NewMonitor ==
    \E threshold \in AlertThresholds, alert \in BOOLEAN :
        /\ mon' = PsiMonitor(threshold, alert)
        /\ mon_prev' = mon'
        /\ mon_calls' = 0
        /\ mon_ret' = << >>
        /\ UNCHANGED <<cphase_vars, acp_vars, sess_vars, gw_vars, iso_vars, flow_vars>>

\* mon.update(text, E, I, O, P_align)
AlertUpdate ==
    \E scores \in AlertScores, now \in AlertTimes :
        LET u == update(mon, "text", scores[1], scores[2], scores[3], scores[4],
                        NoValue, now)
        IN  /\ mon_calls < MaxUpdates
            /\ mon' = u.self
            /\ mon_prev' = mon
            /\ mon_calls' = mon_calls + 1
            /\ mon_ret' = << u.ret >>
            /\ UNCHANGED <<cphase_vars, acp_vars, sess_vars, gw_vars, iso_vars, flow_vars>>

NextAlerts == NewMonitor \/ AlertUpdate

SpecAlerts == Init /\ [][NextAlerts]_vars

----------------------------------------------------------------------------
\* Vocabulary of the properties, in terms of what a caller of step observes

Called == Len(history) >= 1

Last == history[Len(history)]

\* The call before the last one (only when Len(history) >= 2)
Prev == history[Len(history) - 1]

\* A crisis tick: hard flag set or psi < 0.05
CrisisTick(c) == c.hard_flag \/ c.psi < 5

\* A recovery turn: psi >= 0.10 and no hard flag
RecoveryTurn(c) == c.psi >= 10 /\ ~c.hard_flag

\* The call took the machine from inactive to active / from active to inactive
EntryStep(c) == ~c.was_active /\ c.is_active

ExitStep(c) == c.was_active /\ ~c.is_active

HasAlert == "alert" \in DOMAIN result

\* The last three calls, oldest first (only when Len(history) >= 3)
LastThree == { Len(history) - 2, Len(history) - 1, Len(history) }

----------------------------------------------------------------------------
C2_AlertExactlyOnEntry ==
    /\ Called => (HasAlert <=> EntryStep(Last))
    /\ alerts_since_exit <= 1
    /\ active => alerts_since_exit = 1

\* A long episode: the machine is still active, several qualifying ticks after entry
C2_Witness ==
    /\ Called
    /\ active
    /\ Last.was_active
    /\ CrisisTick(Last)
    /\ crisis_turns >= 4
    /\ alerts_since_exit = 1

\* C3: the machine leaves the crisis state on a step only if that step and
\* the two steps before it were all taken while active, each with psi >= 0.10
\* and no hard flag; a step taken while active with a hard flag or psi < 0.10
\* leaves the recovery counter at 0.
C3_ExitNeedsThreeRecoveryTurns ==
    Called =>
        /\ ExitStep(Last) =>
              /\ Len(history) >= 3
              /\ \A i \in LastThree : history[i].was_active /\ RecoveryTurn(history[i])
        /\ (Last.was_active /\ ~RecoveryTurn(Last)) => recovery_turns = 0

\* An exit step that ends three recovery turns taken while active
C3_Witness ==
    /\ Len(history) >= 3
    /\ ExitStep(Last)
    /\ \A i \in LastThree : history[i].was_active /\ RecoveryTurn(history[i])

\* C4: when the machine is active and the next three steps each have
\* psi >= 0.10 and no hard flag, the machine is inactive after the third of
\* them, and the third is the exit step when the recovery counter was 0 at
\* the start.
C4_ExitWithinThreeRecoveryTurns ==
    (/\ Len(history) >= 3
     /\ history[Len(history) - 2].was_active
     /\ \A i \in LastThree : RecoveryTurn(history[i]))
    => /\ ~active
       /\ history[Len(history) - 2].recovery_before = 0 => ExitStep(Last)

\* Three recovery turns in a row starting from an active machine with counter 0
C4_Witness ==
    /\ Len(history) >= 3
    /\ history[Len(history) - 2].was_active
    /\ history[Len(history) - 2].recovery_before = 0
    /\ \A i \in LastThree : RecoveryTurn(history[i])

\* C5: a step with the hard flag set, taken while the machine is already
\* active, leaves the recovery counter at 0, the machine active and the
\* reported tier SAFETY, whatever psi and the recovery counter were.
C5_HardFlagBlocksExit ==
    (Called /\ Last.was_active /\ Last.hard_flag)
    => /\ recovery_turns = 0
       /\ active
       /\ result.tier = "SAFETY"

\* A hard-flagged step with psi >= 0.10 that came when two recovery turns were counted
C5_Witness ==
    /\ Called
    /\ Last.was_active
    /\ Last.hard_flag
    /\ Last.psi >= 10
    /\ Last.recovery_before = 2

\* C6: on the step where exit fires, crisis_turns, recovery_turns and the
\* beat cursor are 0 and active is false afterwards, the tier is COHERENCE
\* and the message is the stability-restored text, not a beat.
C6_ExitResetsEverything ==
    (Called /\ ExitStep(Last))
    => /\ crisis_turns = 0
       /\ recovery_turns = 0
       /\ turn_counter = 0
       /\ ~active
       /\ result.tier = "COHERENCE"
       /\ result.message = STABILITY_RESTORED
       /\ \A i \in 1..Len(beats) : result.message /= beats[i]

\* An exit step of an episode whose cursor had advanced past the first cycle
C6_Witness ==
    /\ Called
    /\ ExitStep(Last)
    /\ Last.cursor_before >= 4

\* C7: within an episode the n-th step on which the machine is active and
\* not exiting (n = 0 on the entry step) returns beat n mod 4 of GROUND,
\* VALIDATE, TINY CONTROL, BRIDGE TO CARE; the cursor goes back to 0 only on
\* an exit step, so every episode starts at GROUND.
C7_BeatsCycleInOrder ==
    Called =>
        /\ active =>
              /\ episode_steps >= 1
              /\ result.message =
                    << "GROUND", "VALIDATE", "TINY CONTROL", "BRIDGE TO CARE" >>
                        [((episode_steps - 1) % 4) + 1]
        /\ turn_counter < Last.cursor_before => ExitStep(Last)
        /\ EntryStep(Last) => result.message = "GROUND"

\* The sixth active step of an episode: the cycle has wrapped
C7_Witness ==
    /\ Called
    /\ active
    /\ episode_steps = 6
    /\ result.message = "VALIDATE"

\* C8: the reported tier is SAFETY iff the machine is active after the step,
\* COHERENCE iff the step is an exit step, and NORMAL otherwise.
C8_TierMatchesState ==
    Called =>
        /\ result.tier = "SAFETY" <=> active
        /\ result.tier = "COHERENCE" <=> ExitStep(Last)
        /\ result.tier = "NORMAL" <=> (~active /\ ~ExitStep(Last))

\* A NORMAL step right after an exit step
C8_Witness ==
    /\ Len(history) >= 2
    /\ ExitStep(Prev)
    /\ result.tier = "NORMAL"

\* C9 as stated: step returns message None only on steps where the machine
\* has never been active, on this or any earlier step.
C9_NoneOnlyIfNeverActive ==
    (Called /\ result.message = None) => ~ever_active

\* C9 amended: step returns message None only on steps at whose start the
\* machine was not active and which did not enter crisis (this includes the
\* steps after an earlier episode has ended).
C9_NoneOnlyIfInactiveAndNotEntering ==
    (Called /\ result.message = None) => (~Last.was_active /\ ~active)

\* A step with message None after an episode has ended
C9_Witness ==
    /\ Called
    /\ result.message = None
    /\ ever_active

\* C10 as stated: on the demo timeline 0.32, 0.18, 0.07, 0.06, 0.08, 0.12,
\* 0.16 with no hard flags, entry triggers at the 4th reading, one alert is
\* emitted over the sequence and exit does not trigger.
C10_DemoEntersAtFourthReading ==
    /\ demo_i = 4 => (HasAlert /\ EntryStep(Last))
    /\ demo_i = Len(timeline) => (alerts_since_exit = 1 /\ active)

\* C10 amended: on the demo timeline with no hard flags no reading is below
\* 0.05, so entry never triggers, no alert is emitted over the sequence,
\* every step reports tier NORMAL with message None, and exit does not
\* trigger.
C10_DemoNeverEnters ==
    demo_i >= 1 =>
        /\ ~HasAlert
        /\ ~active
        /\ ~ever_active
        /\ alerts_since_exit = 0
        /\ ~ExitStep(Last)
        /\ result.tier = "NORMAL"
        /\ result.message = None

\* The demo loop has fed all seven readings
C10_Witness ==
    /\ demo_i = Len(timeline)
    /\ Last.psi = 16

----------------------------------------------------------------------------
\* psi outside the closed unit interval [0, 1]
OutOfRange(c) == c.psi < 0 \/ c.psi > 100

\* C11: a step whose psi lies outside [0,1] fails with a validation error
\* (it returns no result dict) and leaves crisis_turns, recovery_turns, active
\* and the beat cursor unchanged; the value is counted neither as a crisis
\* tick nor as a recovery turn.
C11_OutOfRangePsiRejected ==
    (Called /\ OutOfRange(Last)) =>
        /\ "tier" \notin DOMAIN result
        /\ crisis_turns = Last.crisis_before
        /\ recovery_turns = Last.recovery_before
        /\ active = Last.was_active
        /\ turn_counter = Last.cursor_before

\* C12: when the machine is inactive and a step has hard_flag set, that step
\* alone enters the crisis state and returns an alert, without a preceding
\* crisis tick.
C12_HardFlagEntersAtOnce ==
    (Called /\ ~Last.was_active /\ Last.hard_flag) => (active /\ HasAlert)

----------------------------------------------------------------------------
\* Vocabulary of the selector properties

Decided == decision /= << >>

\* The value of a component as the selector's tests read it (1.0 when missing)
Component(name) == Get(acp_args.components, name, 100)

\* The SAFETY condition of section 4.2: any hard flag set, or psi below the
\* crisis threshold, or rapid decline with low P_align or low I
SafetyCondition ==
    \/ \E k \in DOMAIN acp_args.hard_flags : acp_args.hard_flags[k]
    \/ acp_args.psi < cfg.crisis_threshold
    \/ /\ acp_args.dpsi_dt <= cfg.rapid_decline
       /\ (Component("P_align") < 10 \/ Component("I") < 10)

\* The COHERENCE condition of section 4.2
CoherenceCondition ==
    \/ (cfg.crisis_threshold <= acp_args.psi /\ acp_args.psi < cfg.caution_band)
    \/ /\ acp_args.psi >= cfg.caution_band
       /\ Component("P_align") < 20
       /\ acp_args.dpsi_dt < 0

\* C13: decide returns SAFETY iff at least one entry of hard_flags is true,
\* or psi < crisis_threshold, or dpsi_dt <= rapid_decline with P_align < 0.10
\* or I < 0.10.
C13_SafetyIffCondition ==
    Decided => (decision.tier = "SAFETY" <=> SafetyCondition)

\* C14: first match wins: the tier is SAFETY when the SAFETY condition holds;
\* otherwise it is COHERENCE iff the COHERENCE condition holds and TRUTH in
\* every remaining case, so TRUTH comes only with psi >= caution_band and no
\* hard flag set.
C14_FirstMatchWins ==
    Decided =>
        /\ SafetyCondition => decision.tier = "SAFETY"
        /\ ~SafetyCondition =>
              /\ decision.tier = "COHERENCE" <=> CoherenceCondition
              /\ decision.tier = "TRUTH" <=> ~CoherenceCondition
        /\ decision.tier = "TRUTH" =>
              /\ acp_args.psi >= cfg.caution_band
              /\ \A k \in DOMAIN acp_args.hard_flags : ~acp_args.hard_flags[k]

CitesRapidDecline(extra) ==
    extra \in { "Rapid decline combined with low purpose-alignment." }

\* C16: for psi = 0.07, dpsi_dt = -0.60, P_align = 0.09 and no hard flag,
\* decide returns SAFETY and the rationale names rapid decline combined with
\* low purpose-alignment, not another trigger, as the reason.
C16_RationaleNamesRapidDecline ==
    (/\ Decided
     /\ acp_args.psi = 7
     /\ acp_args.dpsi_dt = -60
     /\ Get(acp_args.components, "P_align", 100) = 9
     /\ ~AnyFlag(acp_args.hard_flags))
    => /\ decision.tier = "SAFETY"
       /\ CitesRapidDecline(decision.rationale.extra)
       /\ decision.rationale.extra /= SAFETY_EXTRA

----------------------------------------------------------------------------
\* Vocabulary of the monitor properties

Snap(n) == mon.snapshots[n]

\* C19: the first recorded snapshot has dpsi_dt None; every later snapshot
\* has dpsi_dt = (psi_n - psi_{n-1}) / (t_n - t_{n-1}) against the snapshot
\* just before it, and None when t_n - t_{n-1} <= 0.
C19_BackwardDifference ==
    \A n \in 1..Len(mon.snapshots) :
        IF n = 1
        THEN Snap(n).dpsi_dt = << >>
        ELSE IF Snap(n).timestamp - Snap(n - 1).timestamp <= 0
        THEN Snap(n).dpsi_dt = << >>
        ELSE /\ Len(Snap(n).dpsi_dt) = 2
             /\ Snap(n).dpsi_dt[1] = Snap(n).psi - Snap(n - 1).psi
             /\ Snap(n).dpsi_dt[2] = Snap(n).timestamp - Snap(n - 1).timestamp

\* Three snapshots: the third has a derivative that differs from the one
\* against the first, the second was taken with the clock standing still
C19_Witness ==
    /\ Len(mon.snapshots) = 3
    /\ Snap(2).timestamp = Snap(1).timestamp
    /\ Snap(2).dpsi_dt = << >>
    /\ Snap(3).timestamp > Snap(2).timestamp
    /\ Snap(2).psi /= Snap(1).psi
    /\ Snap(3).dpsi_dt /= << >>

\* C20: every update call appends exactly one snapshot and one message at
\* the end and leaves the earlier ones unchanged and in place, so the number
\* of snapshots, of messages and of update calls are equal.
C20_AppendOnly ==
    /\ Len(mon.snapshots) = mon_calls
    /\ Len(mon.history) = mon_calls
    /\ mon_calls >= 1 =>
          /\ Len(mon.snapshots) = Len(mon_prev.snapshots) + 1
          /\ SubSeq(mon.snapshots, 1, Len(mon_prev.snapshots)) = mon_prev.snapshots
          /\ Len(mon.history) = Len(mon_prev.history) + 1
          /\ SubSeq(mon.history, 1, Len(mon_prev.history)) = mon_prev.history
          /\ mon.snapshots[Len(mon.snapshots)].psi = mon_ret[1]

\* Three updates made, the last one with an alert
C20_Witness ==
    /\ mon_calls = 3
    /\ Len(mon.snapshots) = 3
    /\ Len(mon.alerts) >= 1
    /\ mon_prev.snapshots /= << >>

\* C21: the timestamps of the trajectory never decrease: a record whose
\* timestamp is earlier than the last recorded one is refused
\* (OrderingViolation) and appends nothing.
C21_TimestampsNeverDecrease ==
    \A n \in 2..Len(mon.snapshots) : Snap(n).timestamp >= Snap(n - 1).timestamp

\* The four component scores of a snapshot
Components(snap) == { snap.E, snap.I, snap.O, snap.P_align }

\* x is a score in [0,1], in hundredths
InUnit(x) == 0 <= x /\ x <= 100

\* C22: no snapshot with a component outside [0,1] is ever recorded; an
\* update with such a component fails validation and records nothing.
C22_NoOutOfRangeComponentRecorded ==
    \A n \in 1..Len(mon.snapshots) : \A x \in Components(Snap(n)) : InUnit(x)

\* 1.0 in the unit of the monitor's psi
PSI_ONE == 100 * 100 * 100 * 100

\* C23: for component scores in [0,1] the recorded psi is the product
\* E*I*O*P of the scores of the same call, lies in [0,1], is 0 whenever a
\* component is 0, and is the value the call returned.
C23_PsiIsProductOfOwnComponents ==
    /\ \A n \in 1..Len(mon.snapshots) :
          (\A x \in Components(Snap(n)) : InUnit(x)) =>
              /\ Snap(n).psi = Snap(n).E * Snap(n).I * Snap(n).O * Snap(n).P_align
              /\ 0 <= Snap(n).psi /\ Snap(n).psi <= PSI_ONE
              /\ 0 \in Components(Snap(n)) => Snap(n).psi = 0
    /\ mon_calls >= 1 => mon_ret[1] = Snap(Len(mon.snapshots)).psi

\* A snapshot with a zero component follows one with psi 1.0 and another
\* with a psi strictly between
C23_Witness ==
    /\ Len(mon.snapshots) = 3
    /\ Snap(1).psi = PSI_ONE
    /\ 0 < Snap(2).psi /\ Snap(2).psi < PSI_ONE
    /\ \A x \in Components(Snap(2)) : InUnit(x)
    /\ 0 \in Components(Snap(3))
    /\ Snap(3).psi = 0

----------------------------------------------------------------------------
\* C18: any two alerts ever emitted have different ids, whether they come
\* from two episodes of one machine or from the machines of two sessions,
\* also when the two emissions read the same clock value.
C18_AlertIdsUnique ==
    \A i, j \in 1..Len(emitted) :
        i /= j => emitted[i].alert_id /= emitted[j].alert_id

----------------------------------------------------------------------------
\* The four flags of a record r are the fixed ones
FixedFlags(r) ==
    /\ r.autonomous_action = FALSE
    /\ r.human_required = TRUE
    /\ r.consent_verified = FALSE
    /\ r.reviewed_by_human = FALSE

\* The flags the package in line n of the log file carries
PackageFlags(n) ==
    [k \in {"autonomous_action", "human_required", "consent_verified",
            "reviewed_by_human"} |-> Loads(decrypt(log_file[n]), k)]

\* The payload of the package in line n of the log file
PackagePayload(n) == Loads(decrypt(log_file[n]), "payload")

\* C17: every record carries autonomous_action = false: every CrisisAlert
\* has autonomous_action false, human_required true, consent_verified false
\* and reviewed_by_human false, every ACPDecision has autonomous_action
\* false, and every package send_alert builds has the same four flag values
\* whatever its payload says.
C17_NoAutonomousAction ==
    /\ \A i \in 1..Len(emitted) : FixedFlags(emitted[i])
    /\ decision /= << >> => decision.autonomous_action = FALSE
    /\ \A n \in 1..Len(log_file) : FixedFlags(PackageFlags(n))

\* An alert and a decision exist, and the log holds both a package whose
\* payload is that alert and one whose payload sets every flag the other way
C17_Witness ==
    /\ Len(emitted) > 0
    /\ decision /= << >>
    /\ \E n \in 1..Len(log_file) : PackagePayload(n) = HostilePayload
    /\ \E n \in 1..Len(log_file) : PackagePayload(n) = emitted[1]

----------------------------------------------------------------------------
\* The component scores of the scenario: E = 0.9, I = 0.9, O = 0.8, P = 0.9
ScenarioComponents == [E |-> 90, I |-> 90, O |-> 80, P_align |-> 90]

\* C24: for the scores E = 0.9, I = 0.9, O = 0.8, P = 0.9 the computed psi
\* is 0.5832 and, with the default thresholds and no hard flag, decide
\* returns TRUTH for that turn whatever dpsi_dt is.
C24_ScenarioIsTruth ==
    (acp_args /= << >> /\ acp_args.components = ScenarioComponents) =>
        /\ mon_ret[1] = 5832 * (PSI_ONE \div 10000)
        /\ acp_args.psi = mon_ret[1]
        /\ decision.tier = "TRUTH"

\* The scenario turn came second, with a rapid decline reported
C24_Witness ==
    /\ acp_args /= << >>
    /\ acp_args.components = ScenarioComponents
    /\ acp_args.dpsi_dt = -60
    /\ Len(mon.snapshots) = 2
    /\ decision.tier = "TRUTH"

----------------------------------------------------------------------------
\* The component entries of a record of the decision
Echoed(r) == { r.E, r.I, r.O, r.P_align }

\* C25: for every decide call the audit bundle agrees with the decision:
\* its selected_tier is the returned tier, its thresholds are the selector's
\* configured thresholds, its flags are the input flags, and every component
\* it echoes, and every component in the rationale, lies in [0,1] even when
\* the input component does not.
C25_AuditBundleConsistent ==
    decision /= << >> =>
        /\ decision.signals.selected_tier = decision.tier
        /\ decision.rationale.tier = decision.tier
        /\ decision.signals.thresholds = cfg
        /\ decision.signals.flags = acp_args.hard_flags
        /\ \A x \in Echoed(decision.signals.metrics) : InUnit(x)
        /\ \A x \in Echoed(decision.rationale) : InUnit(x)

\* A decision under a configuration of the host's own, for components out of
\* range on both sides, with a hard flag set
C25_Witness ==
    /\ decision /= << >>
    /\ cfg = ACPConfigOf(10, 30)
    /\ acp_args.components.E > 100
    /\ acp_args.components.O < 0
    /\ decision.signals.metrics.E = 100
    /\ decision.signals.metrics.O = 0
    /\ AnyFlag(acp_args.hard_flags)

\* 0 <= crisis_threshold < caution_band <= 1
ValidThresholds(c) ==
    /\ 0 <= c.crisis_threshold
    /\ c.crisis_threshold < c.caution_band
    /\ c.caution_band <= 100

\* C26: a selector whose thresholds do not satisfy
\* 0 <= crisis_threshold < caution_band <= 1 cannot be constructed
\* (ConfigurationError), so no decision is ever produced under such
\* thresholds.
C26_NoDecisionUnderInvalidThresholds ==
    decision /= << >> => ValidThresholds(cfg)

----------------------------------------------------------------------------
\* What a runtime on its own is and returns after the step calls cs
RECURSIVE StepsAlone(_)
StepsAlone(cs) ==
    IF cs = << >>
    THEN [self |-> CPhaseRuntime, ret |-> << >>]
    ELSE LET before == StepsAlone(SubSeq(cs, 1, Len(cs) - 1)).self
             c == cs[Len(cs)]
         IN  step(before, PsiState(c.psi, 0), c.hard_flag)

\* What a monitor on its own is and returns after the update calls cs
RECURSIVE UpdatesAlone(_)
UpdatesAlone(cs) ==
    IF cs = << >>
    THEN [self |-> PsiMonitor(MON_THRESHOLD, TRUE), ret |-> << >>]
    ELSE LET before == UpdatesAlone(SubSeq(cs, 1, Len(cs) - 1)).self
             c == cs[Len(cs)]
             u == update(before, "text", c.scores[1], c.scores[2], c.scores[3],
                         c.scores[4], NoValue, c.now)
         IN  [self |-> u.self, ret |-> << u.ret >>]

----------------------------------------------------------------------------
\* The acknowledgement id of the package in line n of the log file
PackageId(n) == Loads(decrypt(log_file[n]), "gateway_id")

\* C28: submitting an alert is idempotent under retry: send_alert called
\* twice with the same alert leaves the logged state one call leaves (one
\* package for that alert) and returns the same acknowledgement id.
C28_SendAlertIdempotent ==
    \A m, n \in 1..Len(log_file) :
        PackagePayload(m) = PackagePayload(n) =>
            /\ m = n
            /\ PackageId(m) = PackageId(n)

----------------------------------------------------------------------------
\* The last turn of the flow was a recovery turn: psi >= 0.10, no hard flag
FlowRecovered ==
    /\ flow_in /= << >>
    /\ flow_in.psi >= EXIT_THRESHOLD
    /\ ~flow_in.hard_flag

\* C29: in the per-turn flow that steps the runtime only on turns the
\* selector classifies as SAFETY, a machine that has entered crisis becomes
\* inactive again once psi stays >= 0.10 with no hard flag turn after turn.
C29_RecoveredMachineExits ==
    []((cphase.active /\ []FlowRecovered) => <>(~cphase.active))

\* The last turn of the flow was a crisis tick for the state machine
FlowCrisisTick ==
    /\ flow_in /= << >>
    /\ (flow_in.hard_flag \/ flow_in.psi < CRISIS_THRESHOLD)

\* C30: with the default thresholds every turn that is a crisis tick for
\* the state machine (psi < 0.05, or the hard flag, passed to the selector
\* as explicit_self_harm) is classified SAFETY by the selector on the same
\* inputs, so the flow steps the machine on every crisis tick.
C30_CrisisTickIsSafety ==
    FlowCrisisTick =>
        /\ cfg = ACPConfig
        /\ decision.tier = "SAFETY"
        /\ decision.signals.metrics.psi = flow_in.psi
        /\ flow_in.stepped

\* The machine entered on a turn with psi below the threshold and no flag,
\* after a turn with psi at the exit threshold was not stepped
C30_Witness ==
    /\ FlowCrisisTick
    /\ ~flow_in.hard_flag
    /\ flow_in.dpsi_dt = -6
    /\ flow_in.stepped
    /\ cphase.active
    /\ Len(log_file) = 1


-----------------------------------------------------------------------------
\* C31: after every step call, recovery_turns is at most 2, and an inactive
\* machine has recovery_turns = 0, its beat cursor at 0 and crisis_turns <= 1
C31_CountersAtRest ==
    /\ recovery_turns <= 2
    /\ ~active => /\ recovery_turns = 0
                  /\ turn_counter = 0
                  /\ crisis_turns <= 1

\* An episode that advanced the cursor and counted two recovery turns has just
\* ended, and the machine is at rest
C31_Witness ==
    /\ Called
    /\ ExitStep(Last)
    /\ Last.recovery_before = 2
    /\ Last.cursor_before >= 3
    /\ ~active

\* C32: a crisis episode lasts at least three steps before it can end: the
\* entry step counts no recovery turn, the exit step is at least the third
\* step after the entry step, and COHERENCE is reported only by an exit step
\* that follows at least three consecutive steps reporting SAFETY
C32_EpisodeLastsThreeSteps ==
    Called =>
        /\ EntryStep(Last) => (active /\ recovery_turns = 0 /\ result.tier = "SAFETY")
        /\ ExitStep(Last) =>
              /\ Len(history) >= 3
              /\ \A i \in (Len(history) - 2)..Len(history) : history[i].was_active
              /\ result.tier = "COHERENCE"
        /\ result.tier = "COHERENCE" =>
              /\ ExitStep(Last)
              /\ Last.safety_before >= 3

\* The shortest episode: entry, two more SAFETY steps, then the exit step
C32_Witness ==
    /\ Called
    /\ ExitStep(Last)
    /\ result.tier = "COHERENCE"
    /\ Last.safety_before = 3

\* C33: for a component absent from the components passed to decide, the value
\* the tier decision is based on equals the value the rationale and the audit
\* bundle report for it: supplying the reported value for each absent component
\* gives the same tier
C33_AbsentComponentDecidedAsReported ==
    Decided =>
        LET comps == acp_args.components
            reported == decision.signals.metrics
            filled == [k \in {"E", "I", "O", "P_align"} |->
                          IF k \in DOMAIN comps THEN comps[k] ELSE reported[k]]
        IN  /\ \A k \in {"E", "I", "O", "P_align"} \ DOMAIN comps :
                  decision.rationale[k] = Fmt2(reported[k])
            /\ decision.tier =
                  decide([cfg |-> cfg], acp_args.psi, acp_args.dpsi_dt, filled,
                         acp_args.hard_flags, None).ret.tier

\* The level _alert gives a psi below the threshold
LevelOf(psi) ==
    IF psi < EXTREME_BELOW THEN "EXTREME"
    ELSE IF psi < SEVERE_BELOW THEN "SEVERE"
    ELSE "DARK_NIGHT"

BelowThreshold(snap) == snap.psi < mon.threshold

\* C34: the alert records are, in order, the snapshots with psi < threshold,
\* one record each: an update with psi < threshold appends exactly one alert
\* and hands it to the callback exactly once, an update with psi >= threshold
\* adds none, and the level is EXTREME for psi < 0.005, SEVERE for
\* 0.005 <= psi < 0.02 and DARK_NIGHT otherwise
C34_OneAlertPerLowSnapshot ==
    LET low == SelectSeq(mon.snapshots, BelowThreshold) IN
    /\ Len(mon.alerts) = Len(low)
    /\ \A i \in 1..Len(low) :
          /\ mon.alerts[i].psi = low[i].psi
          /\ mon.alerts[i].level = LevelOf(low[i].psi)
    /\ mon.called = IF mon.alert_callback THEN mon.alerts ELSE << >>
    /\ mon_calls >= 1 =>
          /\ mon_ret[1] < mon.threshold =>
                /\ Len(mon.alerts) = Len(mon_prev.alerts) + 1
                /\ mon.alert_callback => Len(mon.called) = Len(mon_prev.called) + 1
          /\ mon_ret[1] >= mon.threshold =>
                /\ mon.alerts = mon_prev.alerts
                /\ mon.called = mon_prev.called

\* Three updates in a row below the default threshold, one at each level, each
\* handed to the callback, the last one following another alert
C34_Witness ==
    /\ mon.alert_callback
    /\ mon.threshold = MON_THRESHOLD
    /\ Len(mon.alerts) = 3
    /\ Len(mon.called) = 3
    /\ { mon.alerts[i].level : i \in 1..3 } = {"EXTREME", "SEVERE", "DARK_NIGHT"}
    /\ \E i \in 1..3 : mon.alerts[i].psi = EXTREME_BELOW
    /\ \E i \in 1..3 : mon.alerts[i].psi = SEVERE_BELOW

====
